---- MODULE Spec2Model ----
(***************************************************************************)
(* Model of the data-access layer of PGC_start: class DataBase             *)
(* (src/unnamed/part_000).  One shared instance holds the fields client    *)
(* and db; every public method is an async function, so a call is a        *)
(* sequence of synchronous steps separated by its awaits.  Each action     *)
(* below is one such synchronous step of one call; steps of different      *)
(* calls interleave at the awaits, as on the JavaScript event loop.        *)
(*                                                                         *)
(* The MongoDB driver and the store are the environment:                   *)
(*  - clientPromise (line 2) is one module-level promise; every await of   *)
(*    it yields the same MongoClient, or the same rejection;               *)
(*  - client.db(name) returns a new Db object at every call;               *)
(*  - client.close() closes that one client for good: a request issued on  *)
(*    or outstanding at a closed client fails (MongoNotConnectedError);    *)
(*  - createIndex of an identical index is a no-op, of an index that       *)
(*    exists on the field with other options error 85                      *)
(*    (IndexOptionsConflict), and of a unique index over duplicate values  *)
(*    a failure; insertOne against a unique index with a colliding value   *)
(*    fails with a duplicate key error.                                    *)
(***************************************************************************)
EXTENDS Integers, Sequences, FiniteSets, Bags, TLC

\* ------------------------------------------------------------- bounds
\* cap on the number of Db handles created (client.db() calls)
MaxHandles == 2
\* cap on the number of documents stored in the collection
MaxDocs == 2

\* ------------------------------------------------------------- domains
\* the callers: two calls can be outstanding at the same time
Procs == {"c1", "c2"}
Names == {"pgc", "other"}
\* the database name the application passes to getInstance
AppName == "pgc"
Collections == {"User"}
Fields == {"email", "name"}
Values == {"a", "b"}
\* the documents inserted carry an email and no name
Docs == [{"email"} -> Values]
QueryFields == {"email"}
FieldLists == {<<>>, <<"email">>, <<"email", "name">>}

NULL == 0

VARIABLES
  instance,    \* DataBase.instance: NULL or the id of the instance
  dbName,      \* this.dbName of the instance ("" before construction)
  created,     \* number of DataBase objects ever constructed
  returned,    \* the value returned by the latest getInstance (NULL: none yet)
  asked,       \* the dbName argument of the latest getInstance ("" : none yet)
  promise,     \* clientPromise: "pending", "resolved" or "rejected"
  clientOpen,  \* the MongoClient the promise yields is not closed
  client,      \* this.client: NULL or 1 (the one client)
  db,          \* this.db: NULL or the id of a Db handle
  handles,     \* number of Db handles created so far
  idx,         \* store: idx[c][f], the index of collection c on field f
  docs,        \* store: docs[c], the bag of documents of collection c
  pc,          \* pc[p]: position of call p
  op,          \* op[p]: the method call p runs
  coll,        \* coll[p]: its collectionName argument
  flds,        \* flds[p]: its indexes argument
  doc,         \* doc[p]: its document argument (or the field and value to look for)
  pend,        \* pend[p]: positions of flds[p] whose createIndex is outstanding
  out,         \* out[p]: how the call ended
  ret          \* ret[p]: the value it resolved to

conn == <<promise, clientOpen, client, db, handles>>
single == <<instance, dbName, created, returned, asked>>
store == <<idx, docs>>
calls == <<pc, op, coll, flds, doc, pend, out, ret>>
vars == <<instance, dbName, created, returned, asked, promise, clientOpen, client, db,
          handles, idx, docs, pc, op, coll, flds, doc, pend, out, ret>>

\* "unique": the index createUniqueIndex asks for; "uniqueAlt": a unique index
\* on the field made with other options; "plain": a non-unique index on it
IndexKinds == {"none", "unique", "uniqueAlt", "plain"}
\* the indexes a collection holds before this layer first touches it: none, or
\* indexes made by another client of the store
InitialIndexes ==
  { [f \in Fields |-> "none"],
    [f \in Fields |-> IF f = "email" THEN "uniqueAlt" ELSE "plain"] }
NoDoc == <<>>

Init ==
  /\ instance = NULL /\ dbName = "" /\ created = 0 /\ returned = NULL /\ asked = ""
  /\ promise = "pending" /\ clientOpen = TRUE
  /\ client = NULL /\ db = NULL /\ handles = 0
  /\ idx \in [Collections -> InitialIndexes]
  /\ docs = [c \in Collections |-> EmptyBag]
  /\ pc = [p \in Procs |-> "idle"]
  /\ op = [p \in Procs |-> "none"]
  /\ coll = [p \in Procs |-> "User"]
  /\ flds = [p \in Procs |-> <<>>]
  /\ doc = [p \in Procs |-> NoDoc]
  /\ pend = [p \in Procs |-> {}]
  /\ out = [p \in Procs |-> "none"]
  /\ ret = [p \in Procs |-> 0]

\* ------------------------------------------------------------- helpers
\* the call p ends: its promise settles with outcome o and value r
Finish(p, o, r) ==
  /\ pc' = [pc EXCEPT ![p] = "done"]
  /\ out' = [out EXCEPT ![p] = o]
  /\ ret' = [ret EXCEPT ![p] = r]

\* the call p starts method o with arguments c, fl, d
Begin(p, o, c, fl, d) ==
  /\ instance # NULL
  /\ pc[p] = "idle"
  /\ pend[p] = {}
  /\ op' = [op EXCEPT ![p] = o]
  /\ coll' = [coll EXCEPT ![p] = c]
  /\ flds' = [flds EXCEPT ![p] = fl]
  /\ doc' = [doc EXCEPT ![p] = d]

Goto(p, l) ==
  /\ pc' = [pc EXCEPT ![p] = l]
  /\ UNCHANGED <<out, ret>>

\* ------------------------------------------------------------- singleton
\* getInstance with its test dropped: every call constructs
InstanceMissingAlways == TRUE

\* getInstance, line 24: if (!DataBase.instance)
InstanceMissing == instance = NULL

\* DataBase.getInstance(dbName)
getInstance(name) ==
  /\ IF InstanceMissing
       THEN /\ instance' = created + 1
            /\ created' = created + 1
            /\ dbName' = name
       ELSE UNCHANGED <<instance, created, dbName>>
  /\ returned' = instance'
  /\ asked' = name
  /\ UNCHANGED <<conn, store, calls>>

\* ------------------------------------------------------------- connection
\* clientPromise settles (the driver's initial connect succeeds or fails)
SettlePromise ==
  /\ promise = "pending"
  /\ promise' \in {"resolved", "rejected"}
  /\ UNCHANGED <<single, clientOpen, client, db, handles, store, calls>>

\* the guard of connectDb with its second test negated
AlreadyConnectedSlip == client # NULL /\ db = NULL

\* connectDb, line 67: if (this.client && this.db) return
AlreadyConnected == client # NULL /\ db # NULL

\* the lazy-connect test of the public methods: if (!this.db)
NeedsConnect == db = NULL

\* connectDb up to its await: returns at once, or awaits clientPromise
connectDb(p) ==
  IF AlreadyConnected
    THEN Goto(p, "connected")
    ELSE handles < MaxHandles /\ Goto(p, "connecting")

\* connectDb that stores the client before its connection has settled, so a
\* failed attempt leaves this.client set and this.db absent
ConnectResumeHalfSet(p) ==
  /\ pc[p] = "connecting"
  /\ promise # "pending"
  /\ IF promise = "resolved"
       THEN /\ client' = 1
            /\ db' = handles + 1
            /\ handles' = handles + 1
            /\ Goto(p, "connected")
       ELSE /\ client' = 1
            /\ Finish(p, "ConnectionError", 0)
            /\ UNCHANGED <<db, handles>>
  /\ UNCHANGED <<single, promise, clientOpen, store, op, coll, flds, doc, pend>>

\* connectDb after its await, lines 72-78
ConnectResume(p) ==
  /\ pc[p] = "connecting"
  /\ promise # "pending"
  /\ IF promise = "resolved"
       THEN /\ client' = 1
            /\ db' = handles + 1
            /\ handles' = handles + 1
            /\ Goto(p, "connected")
       ELSE /\ Finish(p, "ConnectionError", 0)
            /\ UNCHANGED <<client, db, handles>>
  /\ UNCHANGED <<single, promise, clientOpen, store, op, coll, flds, doc, pend>>

\* ------------------------------------------------------------- store
\* an index kind that enforces uniqueness
IsUnique(k) == k \in {"unique", "uniqueAlt"}

\* the value a document has for field f (a missing field reads as null)
FieldOf(d, f) == IF f \in DOMAIN d THEN d[f] ELSE "null"

\* a document matches an equality filter ({} matches every document)
Matches(d, q) == \A f \in DOMAIN q : FieldOf(d, f) = q[f]

\* buildQuery that drops the value and builds the empty filter
buildQueryEmpty(field, value) == NoDoc

\* buildQuery, line 171: { [field]: value }
buildQuery(field, value) == field :> value

\* two stored documents of c share their value of field f
HasDup(c, f) ==
  \E d1 \in BagToSet(docs[c]) :
    \/ CopiesIn(d1, docs[c]) >= 2
    \/ \E d2 \in BagToSet(docs[c]) \ {d1} : FieldOf(d2, f) = FieldOf(d1, f)

\* the store's answer to createIndex({f: 1}, {unique: true}) on collection c
CreateIndexReply(c, f) ==
  IF ~clientOpen THEN "DriverError"
  ELSE IF idx[c][f] = "unique" THEN "ok"
  ELSE IF idx[c][f] = "none" THEN (IF HasDup(c, f) THEN "IndexFatal" ELSE "ok")
  ELSE "IndexOptionsConflict"

\* the store's answer to insertOne(d) on collection c
InsertReply(c, d) ==
  IF ~clientOpen THEN "DriverError"
  ELSE IF \E f \in Fields : IsUnique(idx[c][f]) /\ \E e \in BagToSet(docs[c]) : FieldOf(e, f) = FieldOf(d, f)
    THEN "DuplicateKey"
  ELSE "ok"

\* createUniqueIndex with a catch that rethrows every error
createUniqueIndexRethrows(reply) == reply

\* createUniqueIndex, lines 137-145: the catch swallows the index conflict
createUniqueIndex(reply) ==
  IF reply = "IndexOptionsConflict" THEN "ok" ELSE reply

\* createIndex whose failure rolls back the indexes made before it
IndexEffectRollback(c, f, reply) ==
  IF reply = "ok" /\ idx[c][f] = "none"
    THEN idx' = [idx EXCEPT ![c][f] = "unique"]
    ELSE IF reply \in {"IndexFatal", "DriverError"}
      THEN idx' = [idx EXCEPT ![c] = [g \in Fields |-> IF @[g] = "unique" THEN "none" ELSE @[g]]]
      ELSE UNCHANGED idx

\* the store after it has answered createIndex on (c, f) with reply
IndexEffect(c, f, reply) ==
  IF reply = "ok" /\ idx[c][f] = "none"
    THEN idx' = [idx EXCEPT ![c][f] = "unique"]
    ELSE UNCHANGED idx

\* getCollection, line 156: throws when this.db is not set
getCollectionThrows == db = NULL

\* a direct call of connectDb
ConnectCall(p) ==
  /\ Begin(p, "connectDb", "User", <<>>, NoDoc)
  /\ connectDb(p)
  /\ UNCHANGED <<single, conn, store, pend>>

\* disconnectDb up to its await, lines 88-93
DisconnectCall(p) ==
  /\ Begin(p, "disconnectDb", "User", <<>>, NoDoc)
  /\ IF client = NULL
       THEN /\ Finish(p, "ok", 0)
            /\ UNCHANGED clientOpen
       ELSE /\ clientOpen' = FALSE
            /\ Goto(p, "closing")
  /\ UNCHANGED <<single, promise, client, db, handles, store, pend>>

\* the reset of disconnectDb with the db handle forgotten
ResetClientOnly == client' = NULL /\ UNCHANGED db

\* disconnectDb, lines 95-96: this.client = null; this.db = null
ResetState == client' = NULL /\ db' = NULL

\* disconnectDb after its await, lines 94-100: close() resolved or rejected
DisconnectResume(p) ==
  /\ pc[p] = "closing"
  /\ \/ /\ ResetState
        /\ Finish(p, "ok", 0)
     \/ /\ Finish(p, "CloseError", 0)
        /\ UNCHANGED <<client, db>>
  /\ UNCHANGED <<single, promise, clientOpen, handles, store, op, coll, flds, doc, pend>>

\* ------------------------------------------------------------- methods
CrudOps == {"documentExists", "addDocument", "removeAllDocuments"}

\* initCollection that issues every remaining createIndex without awaiting
initCollectionLoopAll(p, fl, i) ==
  IF i > Len(fl)
    THEN Finish(p, "ok", db) /\ pend' = [pend EXCEPT ![p] = {}]
    ELSE IF getCollectionThrows
      THEN Finish(p, "NotInitialized", 0) /\ pend' = [pend EXCEPT ![p] = {}]
      ELSE Goto(p, "request") /\ pend' = [pend EXCEPT ![p] = i..Len(fl)]

\* initCollection's loop at position i of fl, lines 115-122: issue the next
\* createIndex, or return this.db after the last one
initCollectionLoop(p, fl, i) ==
  IF i > Len(fl)
    THEN Finish(p, "ok", db) /\ pend' = [pend EXCEPT ![p] = {}]
    ELSE IF getCollectionThrows
      THEN Finish(p, "NotInitialized", 0) /\ pend' = [pend EXCEPT ![p] = {}]
      ELSE Goto(p, "request") /\ pend' = [pend EXCEPT ![p] = {i}]

\* initDb's fan-out, lines 45-47: every createUniqueIndex runs up to its await
initDbFanOut(p, fl) ==
  IF fl = <<>>
    THEN Finish(p, "ok", db) /\ UNCHANGED pend
    ELSE IF getCollectionThrows
      THEN Finish(p, "NotInitialized", 0) /\ UNCHANGED pend
      ELSE Goto(p, "fanout") /\ pend' = [pend EXCEPT ![p] = 1..Len(fl)]

\* the synchronous part of method o that follows its lazy connect
Body(p, o, fl) ==
  IF o = "connectDb" THEN Finish(p, "ok", 0) /\ UNCHANGED pend
  ELSE IF o = "initDb" THEN initDbFanOut(p, fl)
  ELSE IF o = "initCollection" THEN initCollectionLoop(p, fl, 1)
  ELSE /\ IF getCollectionThrows
            THEN Finish(p, "NotInitialized", 0)
            ELSE Goto(p, "request")
       /\ UNCHANGED pend

\* the continuation of "await this.connectDb()"
Continue(p) ==
  /\ pc[p] = "connected"
  /\ Body(p, op[p], flds[p])
  /\ UNCHANGED <<single, conn, store, op, coll, flds, doc>>

\* initDb, lines 36-58, up to its first await
initDb(p, fl, c) ==
  /\ Begin(p, "initDb", c, fl, NoDoc)
  /\ IF NeedsConnect
       THEN connectDb(p)
       ELSE Finish(p, "ok", db)
  /\ UNCHANGED <<single, conn, store, pend>>

\* initCollection, lines 109-123, up to its first await
initCollection(p, fl, c) ==
  /\ Begin(p, "initCollection", c, fl, NoDoc)
  /\ IF NeedsConnect
       THEN connectDb(p) /\ UNCHANGED pend
       ELSE initCollectionLoop(p, fl, 1)
  /\ UNCHANGED <<single, conn, store>>

\* documentExists, addDocument, removeAllDocuments up to their first await
Crud(p, o, c, d) ==
  /\ Begin(p, o, c, <<>>, d)
  /\ IF NeedsConnect
       THEN connectDb(p) /\ UNCHANGED pend
       ELSE Body(p, o, <<>>)
  /\ UNCHANGED <<single, conn, store>>

documentExists(p, field, value, c) ==
  Crud(p, "documentExists", c, [field |-> field, value |-> value])

addDocument(p, c, d) ==
  /\ BagCardinality(docs[c])
       + Cardinality({q \in Procs : op[q] = "addDocument" /\ pc[q] # "done"}) < MaxDocs
  /\ Crud(p, "addDocument", c, d)

removeAllDocuments(p, c) ==
  Crud(p, "removeAllDocuments", c, NoDoc)

\* documentExists, line 191: return document !== null
foundDocument(c, q) == IF \E d \in BagToSet(docs[c]) : Matches(d, q) THEN 1 ELSE 0

\* addDocument with a catch that logs the error and returns normally
addDocumentSwallows(reply) == "ok"

\* addDocument, lines 214-224: the result of insertOne is returned, its error
\* logged and rethrown
addDocumentResult(reply) == reply

\* removeAllDocuments with a filter that selects one email only
removeFilterOneEmail == "email" :> "a"

\* removeAllDocuments, line 242: deleteMany({})
removeFilter == NoDoc

\* the documents of c that deleteMany(q) leaves
Remaining(c, q) ==
  LET keep == {d \in BagToSet(docs[c]) : ~Matches(d, q)} IN
  IF keep = {} THEN EmptyBag ELSE [d \in keep |-> CopiesIn(d, docs[c])]

\* the store answers the one outstanding request of call p
Reply(p) ==
  /\ pc[p] = "request"
  /\ LET c == coll[p] IN
     IF op[p] = "initCollection" THEN
       LET i == CHOOSE j \in pend[p] : TRUE
           r == CreateIndexReply(c, flds[p][i]) IN
       /\ IndexEffect(c, flds[p][i], r)
       /\ UNCHANGED docs
       /\ IF createUniqueIndex(r) = "ok"
            THEN initCollectionLoop(p, flds[p], i + 1)
            ELSE Finish(p, r, 0) /\ pend' = [pend EXCEPT ![p] = {}]
     ELSE IF ~clientOpen THEN
       /\ Finish(p, "DriverError", 0)
       /\ UNCHANGED <<store, pend>>
     ELSE IF op[p] = "documentExists" THEN
       /\ Finish(p, "ok", foundDocument(c, buildQuery(doc[p].field, doc[p].value)))
       /\ UNCHANGED <<store, pend>>
     ELSE IF op[p] = "addDocument" THEN
       /\ Finish(p, addDocumentResult(InsertReply(c, doc[p])),
                 IF InsertReply(c, doc[p]) = "ok" THEN 1 ELSE 0)
       /\ IF InsertReply(c, doc[p]) = "ok"
            THEN docs' = [docs EXCEPT ![c] = @ (+) SetToBag({doc[p]})]
            ELSE UNCHANGED docs
       /\ UNCHANGED <<idx, pend>>
     ELSE
       /\ Finish(p, "ok", BagCardinality(docs[c]) - BagCardinality(Remaining(c, removeFilter)))
       /\ docs' = [docs EXCEPT ![c] = Remaining(c, removeFilter)]
       /\ UNCHANGED <<idx, pend>>
  /\ UNCHANGED <<single, conn, op, coll, flds, doc>>

\* the store answers the createIndex of position i of initDb's fan-out; the
\* first rejection settles Promise.all, the other requests stay outstanding
FanReply(p, i) ==
  /\ pc[p] \in {"fanout", "done", "idle"}
  /\ i \in pend[p]
  /\ LET r == CreateIndexReply(coll[p], flds[p][i]) IN
     /\ IndexEffect(coll[p], flds[p][i], r)
     /\ pend' = [pend EXCEPT ![p] = @ \ {i}]
     /\ IF pc[p] = "fanout" /\ createUniqueIndex(r) # "ok"
          THEN Finish(p, r, 0)
          ELSE IF pc[p] = "fanout" /\ pend[p] = {i}
            THEN Finish(p, "ok", db)
            ELSE UNCHANGED <<pc, out, ret>>
     /\ IF pc[p] = "idle" /\ pend[p] = {i}
          THEN flds' = [flds EXCEPT ![p] = <<>>]
          ELSE UNCHANGED flds
  /\ UNCHANGED <<single, conn, docs, op, coll, doc>>

\* the caller takes the result of call p
Ack(p) ==
  /\ pc[p] = "done"
  /\ pc' = [pc EXCEPT ![p] = "idle"]
  /\ op' = [op EXCEPT ![p] = "none"]
  /\ out' = [out EXCEPT ![p] = "none"]
  /\ ret' = [ret EXCEPT ![p] = 0]
  /\ doc' = [doc EXCEPT ![p] = NoDoc]
  /\ flds' = [flds EXCEPT ![p] = IF pend[p] = {} THEN <<>> ELSE @]
  /\ UNCHANGED <<single, conn, store, coll, pend>>

\* the steps of the calls of caller p on the connection manager alone
ManagerStep(p) ==
  \/ ConnectCall(p)
  \/ DisconnectCall(p)
  \/ ConnectResume(p)
  \/ DisconnectResume(p)
  \/ Continue(p)
  \/ Ack(p)

\* the steps of the index and document methods of caller p
DataStep(p) ==
  \/ Reply(p)
  \/ \E i \in pend[p] : FanReply(p, i)
  \/ \E c \in Collections :
       \/ removeAllDocuments(p, c)
       \/ \E fl \in FieldLists : initDb(p, fl, c) \/ initCollection(p, fl, c)
       \/ \E d \in Docs : addDocument(p, c, d)
       \/ \E f \in QueryFields, v \in Values : documentExists(p, f, v, c)

Next ==
  \/ getInstance(AppName)
  \/ SettlePromise
  \/ \E p \in Procs : ManagerStep(p) \/ DataStep(p)

Spec == Init /\ [][Next]_vars

\* the connection manager on its own, getInstance called with any name
NextManager ==
  \/ \E n \in Names : getInstance(n)
  \/ SettlePromise
  \/ \E p \in Procs : ManagerStep(p)

SpecManager == Init /\ [][NextManager]_vars

\* ------------------------------------------------------------- properties
Connected == client # NULL /\ db # NULL
Disconnected == client = NULL /\ db = NULL

\* in this step caller p starts a call of method o
Starts(p, o) == op[p] = "none" /\ op'[p] = o

\* in this step the call of caller p ends
Finishes(p) == pc[p] # "done" /\ pc'[p] = "done"

\* in this step caller p issues a store request (createIndex, findOne,
\* insertOne, deleteMany)
Issues(p) ==
  \/ pc'[p] = "request" /\ (pc[p] # "request" \/ pend'[p] # pend[p])
  \/ pc'[p] = "fanout" /\ pc[p] # "fanout"

\* C1: concurrent first callers collapse into one connection attempt: at most
\* one connection attempt is in flight at any time and, as long as nobody has
\* disconnected, the handle is recorded at most once.
C1_SingleConnection ==
  /\ Cardinality({p \in Procs : pc[p] = "connecting"}) <= 1
  /\ clientOpen => handles <= 1

\* C2: whenever initDb(fields, collection) returns without error, a connection
\* exists and the collection has a unique index on every field of the list.
C2_InitDbPostcondition ==
  [][\A p \in Procs :
       (Finishes(p) /\ op'[p] = "initDb" /\ out'[p] = "ok")
         => /\ Connected'
            /\ \A i \in 1..Len(flds'[p]) : IsUnique(idx'[coll'[p]][flds'[p][i]])]_vars

\* C3: the implicit (re)connect of an addDocument call leaves it with a usable
\* connection: the client it has connected to is not a closed one.
C3_ReconnectUsable ==
  [][\A p \in Procs :
       (op[p] = "addDocument" /\ pc[p] = "connecting" /\ pc'[p] = "connected")
         => clientOpen']_vars

\* C4: a store request is issued only while a database handle is present and
\* its client is connected (neither closing nor closed).
C4_RequestsOnlyWhenConnected ==
  [][\A p \in Procs : Issues(p) => (db # NULL /\ clientOpen)]_vars

\* C5: connect and disconnect exclude each other: no disconnect is in flight
\* together with a connect, and no call finds the manager connected (skips or
\* leaves connectDb at once) while a disconnect is between its close request
\* and its state reset.
C5_ConnectDisconnectExclusive ==
  /\ [](~ \E p, q \in Procs : pc[p] = "closing" /\ pc[q] = "connecting")
  /\ [][\A p \in Procs :
          ((\E q \in Procs : pc[q] = "closing")
             /\ \E o \in CrudOps \cup {"connectDb", "initDb", "initCollection"} : Starts(p, o))
            => pc'[p] = "connecting"]_vars

\* C6: outside the connect transition the handle is absent (client and db
\* both null) or present and usable (both set, the client not closed).
C6_AbsentOrUsable ==
  (\A p \in Procs : pc[p] # "connecting")
    => (Disconnected \/ (Connected /\ clientOpen))

\* C7: once Connected, a call of connectDb or of a CRUD or index method makes
\* no connection attempt, and only the resumption of a connect or disconnect
\* that was already in flight changes the client and db references.
C7_ConnectIdempotent ==
  [][\A p \in Procs :
       /\ (Connected /\ op[p] = "none" /\ op'[p] \notin {"none", "disconnectDb"})
            => (pc'[p] # "connecting" /\ UNCHANGED <<client, db, handles>>)
       /\ (pc[p] \notin {"connecting", "closing"}
             /\ (pc'[p] # pc[p] \/ pend'[p] # pend[p]))
            => UNCHANGED <<client, db, handles>>]_vars

\* connected once, and both a connectDb and a removeAllDocuments call have
\* returned: one of them ran on the connection the other had made
C7_Witness ==
  /\ Connected /\ handles = 1
  /\ \E p, q \in Procs :
       /\ op[p] = "connectDb" /\ pc[p] = "done" /\ out[p] = "ok"
       /\ op[q] = "removeAllDocuments" /\ pc[q] = "done" /\ out[q] = "ok"

\* C8: disconnectDb called with a client set issues a close and, when it
\* returns normally, leaves client and db null; called with no client it
\* returns at once without error, issues no close and changes nothing.
C8_Disconnect ==
  [][\A p \in Procs :
       /\ (Starts(p, "disconnectDb") /\ client = NULL)
            => /\ pc'[p] = "done" /\ out'[p] = "ok"
               /\ UNCHANGED <<client, db, clientOpen, handles>>
       /\ (Starts(p, "disconnectDb") /\ client # NULL)
            => (pc'[p] = "closing" /\ ~clientOpen')
       /\ (pc[p] = "closing" /\ pc'[p] = "done" /\ out'[p] = "ok")
            => Disconnected']_vars

\* one disconnect has closed the connection and a disconnect by the other
\* caller has returned as well
C8_Witness ==
  /\ Disconnected /\ ~clientOpen
  /\ \A p \in Procs : op[p] = "disconnectDb" /\ pc[p] = "done" /\ out[p] = "ok"

\* C9: at most one DataBase instance is ever constructed, every getInstance
\* returns it, and a call with another name changes neither the instance nor
\* the database name the first caller fixed.
C9_Singleton ==
  /\ [](/\ created <= 1
        /\ instance \in {NULL, 1}
        /\ returned = instance)
  /\ [][instance # NULL => (instance' = instance /\ dbName' = dbName)]_vars

\* getInstance has been called with a name other than the one in force
C9_Witness == instance # NULL /\ returned = instance /\ asked # dbName

\* the createIndex of position i of caller p's list is answered in this step
Answered(p, i) ==
  /\ i \in pend[p]
  /\ i \notin pend'[p] \/ (pc[p] = "request" /\ pc'[p] # "request")

\* C10: a createIndex request for a field that already has a unique index,
\* answered by the store (as a no-op or as "already exists"), makes the call
\* that issued it fail with no error and leaves every index unchanged.
C10_IndexIdempotent ==
  [][\A p \in Procs : \A i \in 1..Len(flds[p]) :
       (Answered(p, i) /\ clientOpen /\ IsUnique(idx[coll[p]][flds[p][i]]))
         => /\ idx' = idx
            /\ out'[p] \notin {"IndexOptionsConflict", "IndexFatal", "DriverError"}
                 \/ out'[p] = out[p]]_vars

\* initCollection(["email"]) has returned without error on a collection whose
\* email field already had a unique index
C10_Witness ==
  /\ clientOpen
  /\ \E p \in Procs :
       /\ op[p] = "initCollection" /\ flds[p] = <<"email">>
       /\ pc[p] = "done" /\ out[p] = "ok"
       /\ idx[coll[p]]["email"] = "uniqueAlt"

\* the store answers request i of an initDb fan-out whose call has returned
Orphan(p, i) ==
  /\ pc[p] \in {"done", "idle"}
  /\ i \in pend[p]
  /\ i \notin pend'[p]

\* C11: a fatal error of one index creation of an initDb fan-out aborts the
\* rest of the fan-out: once initDb has reported the failure, no index
\* creation of that call takes effect any more.
C11_FanOutAborted ==
  [][\A p \in Procs : \A i \in 1..Len(flds[p]) : Orphan(p, i) => idx' = idx]_vars

\* document d collides with a stored document on a uniquely indexed field of c
Collides(c, d) ==
  \E f \in Fields : /\ IsUnique(idx[c][f])
                    /\ \E e \in BagToSet(docs[c]) : FieldOf(e, f) = FieldOf(d, f)

\* C12: in a collection with a unique index on a field no two stored documents
\* ever share that field's value; an addDocument whose document collides on
\* such a field fails with DuplicateKey, rethrown to the caller, and leaves the
\* collection unchanged, and one that does not collide succeeds and stores it.
C12_UniqueEnforced ==
  /\ [](\A c \in Collections : \A f \in Fields :
          IsUnique(idx[c][f]) =>
            \A d \in BagToSet(docs[c]) :
              /\ CopiesIn(d, docs[c]) = 1
              /\ \A e \in BagToSet(docs[c]) \ {d} : FieldOf(e, f) # FieldOf(d, f))
  /\ [][\A p \in Procs :
          (op[p] = "addDocument" /\ pc[p] = "request" /\ pc'[p] = "done" /\ clientOpen)
            => IF Collides(coll[p], doc[p])
                 THEN out'[p] = "DuplicateKey" /\ docs' = docs
                 ELSE /\ out'[p] = "ok"
                      /\ docs'[coll[p]] = docs[coll[p]] (+) SetToBag({doc[p]})]_vars

C12_Witness ==
  \E p, q \in Procs :
    /\ op[p] = "addDocument" /\ pc[p] = "done" /\ out[p] = "ok"
    /\ op[q] = "addDocument" /\ pc[q] = "done" /\ out[q] = "DuplicateKey"
    /\ doc[p] = doc[q]
    /\ idx[coll[p]]["email"] = "unique"
    /\ BagCardinality(docs[coll[p]]) = 1

\* C13: documentExists returns true exactly when at least one stored document
\* of the collection has the given value for the given field (so false on an
\* empty collection and true after a successful addDocument of such a
\* document).
C13_DocumentExists ==
  [][\A p \in Procs :
       (op[p] = "documentExists" /\ pc[p] = "request" /\ pc'[p] = "done" /\ out'[p] = "ok")
         => (ret'[p] = 1) =
              (\E d \in BagToSet(docs[coll[p]]) :
                 doc[p].field \in DOMAIN d /\ d[doc[p].field] = doc[p].value)]_vars

C13_Witness ==
  \E p, q \in Procs :
    /\ op[p] = "documentExists" /\ pc[p] = "done" /\ out[p] = "ok" /\ ret[p] = 0
    /\ op[q] = "documentExists" /\ pc[q] = "done" /\ out[q] = "ok" /\ ret[q] = 1
    /\ docs[coll[p]] # EmptyBag

\* C14: removeAllDocuments on a collection holding N documents returns a
\* deleted count of N and leaves the collection empty, so that no field and
\* value can be found in it afterwards.
C14_RemoveAll ==
  [][\A p \in Procs :
       (op[p] = "removeAllDocuments" /\ pc[p] = "request" /\ pc'[p] = "done" /\ out'[p] = "ok")
         => /\ ret'[p] = BagCardinality(docs[coll[p]])
            /\ docs'[coll[p]] = EmptyBag
            /\ \A f \in QueryFields : \A v \in Values :
                 foundDocument(coll[p], buildQuery(f, v))' = 0]_vars

C14_Witness ==
  \E p \in Procs :
    /\ op[p] = "removeAllDocuments" /\ pc[p] = "done" /\ out[p] = "ok"
    /\ ret[p] >= 2
    /\ docs[coll[p]] = EmptyBag

\* C15: the not-initialized error belongs to the direct accessor path only:
\* documentExists, addDocument and removeAllDocuments, started in any state and
\* under any interleaving with other operations (disconnect included), connect
\* lazily and never fail with it.
C15_CrudNeverNotInitialized ==
  [][\A p \in Procs :
       (Finishes(p) /\ op'[p] \in CrudOps) => out'[p] # "NotInitialized"]_vars

\* C16: initDb and initCollection have the same effect for every starting
\* state (Disconnected or Connected), field list and prior index set: when no
\* store request fails, a call of either that returns leaves the manager
\* Connected and every listed field indexed, as initCollection leaves it.
C16_InitEquivalent ==
  [][\A p \in Procs :
       (Finishes(p) /\ op'[p] \in {"initDb", "initCollection"} /\ out'[p] = "ok")
         => /\ Connected'
            /\ \A i \in 1..Len(flds'[p]) : idx'[coll'[p]][flds'[p][i]] # "none"]_vars

\* an error that createUniqueIndex does not recover from
Fatal(r) == r \notin {"ok", "IndexOptionsConflict"}

\* the store's answer to the request of call p at position i
Answer(p, i) ==
  IF op[p] \in {"initDb", "initCollection"} THEN CreateIndexReply(coll[p], flds[p][i])
  ELSE IF ~clientOpen THEN "DriverError"
  ELSE IF op[p] = "addDocument" THEN InsertReply(coll[p], doc[p])
  ELSE "ok"

\* C17: only the index-already-exists condition is recovered internally: every
\* other failure of a connection attempt or of a store request makes the
\* public operation that issued it fail with that same error, and no operation
\* reports success after such a failure.
C17_FailuresSurface ==
  [][\A p \in Procs :
       /\ (pc[p] = "connecting" /\ pc'[p] # "connecting" /\ promise = "rejected")
            => (pc'[p] = "done" /\ out'[p] = "ConnectionError")
       /\ (pc[p] = "request" /\ (pc'[p] # "request" \/ pend'[p] # pend[p]))
            => LET r == IF pend[p] = {} THEN Answer(p, 0)
                        ELSE Answer(p, CHOOSE i \in pend[p] : TRUE) IN
               /\ Fatal(r) => (pc'[p] = "done" /\ out'[p] = r)
               /\ (pc'[p] = "done" /\ out'[p] = "ok") => ~Fatal(r)
       /\ \A i \in 1..Len(flds[p]) :
            /\ (pc[p] = "fanout" /\ Answered(p, i))
                 => /\ Fatal(Answer(p, i)) => (pc'[p] = "done" /\ out'[p] = Answer(p, i))
                    /\ (pc'[p] = "done" /\ out'[p] = "ok") => ~Fatal(Answer(p, i))
            /\ (pc[p] = "done" /\ Orphan(p, i) /\ Fatal(Answer(p, i)))
                 => out[p] = Answer(p, i)]_vars

\* C18: there is no rollback: an index that exists is never removed or
\* changed by any operation (a failing initDb or initCollection,
\* removeAllDocuments and disconnect included), so the index set only grows.
C18_IndexesOnlyGrow ==
  [][\A c \in Collections : \A f \in Fields :
       idx[c][f] # "none" => idx'[c][f] = idx[c][f]]_vars

C18_Witness ==
  \E p, q \in Procs :
    /\ op[p] = "initCollection" /\ flds[p] = <<"email", "name">>
    /\ pc[p] = "done" /\ out[p] = "IndexFatal"
    /\ idx[coll[p]]["email"] = "unique"
    /\ op[q] = "removeAllDocuments" /\ pc[q] = "done" /\ out[q] = "ok"

\* C19: a failed connection attempt leaves the manager Disconnected, client
\* and db both absent and the state as it was, so the next operation that
\* needs a connection starts a connection attempt of its own and issues no
\* request on a half-set handle.
C19_FailedConnectLeavesDisconnected ==
  /\ [](promise = "rejected" => Disconnected)
  /\ [][\A p \in Procs :
          /\ (pc[p] = "connecting" /\ pc'[p] = "done" /\ out'[p] = "ConnectionError")
               => (Disconnected' /\ UNCHANGED <<client, db, handles, clientOpen>>)
          /\ (promise = "rejected" /\ op[p] = "none"
                /\ op'[p] \in CrudOps \cup {"connectDb", "initDb", "initCollection"})
               => (pc'[p] = "connecting" /\ pend' = pend)]_vars

C19_Witness ==
  \E p, q \in Procs :
    /\ promise = "rejected" /\ Disconnected
    /\ op[p] = "addDocument" /\ pc[p] = "done" /\ out[p] = "ConnectionError"
    /\ op[q] = "initCollection" /\ pc[q] = "connecting"

\* C20: initCollection requests the indexes one at a time in list order, each
\* issued only after the previous one has completed, and on the first fatal
\* failure it rethrows without requesting any index for the fields that
\* follow the failing one.
C20_InitCollectionSequential ==
  /\ [](\A p \in Procs :
          op[p] = "initCollection"
            => /\ Cardinality(pend[p]) <= 1
               /\ pc[p] = "done" => pend[p] = {})
  /\ [][\A p \in Procs :
          (op'[p] = "initCollection" /\ pend'[p] # pend[p])
            => IF pend[p] = {}
                 THEN pend'[p] = {1}
                 ELSE \E i \in pend[p] :
                        IF Fatal(Answer(p, i))
                          THEN pend'[p] = {} /\ pc'[p] = "done" /\ out'[p] = Answer(p, i)
                          ELSE \/ pend'[p] = {i + 1}
                               \/ pend'[p] = {} /\ pc'[p] = "done"
                                    /\ (out'[p] = "ok" => i = Len(flds[p]))]_vars

C20_Witness ==
  \E p \in Procs :
    /\ op[p] = "initCollection" /\ flds[p] = <<"email", "name">>
    /\ pc[p] = "done" /\ out[p] = "IndexFatal"
    /\ clientOpen
    /\ \E d \in BagToSet(docs[coll[p]]) : CopiesIn(d, docs[coll[p]]) >= 2
    /\ idx[coll[p]] = [f \in Fields |-> "none"]

============================================================================
